---- MODULE Spec2Model ----
(***************************************************************************)
(* Wanderlust Travel: the search / result consistency logic of script.js   *)
(* and features.js.                                                        *)
(*                                                                         *)
(* The scripts register every handler under a null guard and keep their    *)
(* state in module-level variables.  SpecSearch is a document that holds   *)
(* both search forms, SpecDest is destinations.html (search form, region   *)
(* filter, sort dropdown), SpecFeatured is the featured loader of          *)
(* index.html, SpecValidate applies validateSearchInput to every input.    *)
(*                                                                         *)
(* A step is the code a handler runs between two awaits.  An aborted       *)
(* fetch, or the json() of an aborted response, rejects with AbortError.   *)
(* Payloads are arrays of well-formed country objects, and the map         *)
(* elements of the pages exist.                                            *)
(***************************************************************************)
EXTENDS Integers, Sequences, FiniteSets, TLC

(***************************************************************************)
(* Text.  A string is a sequence of runs [c, n]: n >= 1 characters of the  *)
(* character class c.  The classes split the characters the way the        *)
(* validation regex (a-z, A-Z, U+00C0..U+00FF, \s, -, ') and trim() tell  *)
(* them apart.                                                             *)
(*   ascii    a-z A-Z                                                      *)
(*   accent   a letter of U+00C0..U+00FF                                   *)
(*   latinsym U+00D7 or U+00F7, the two non-letters of U+00C0..U+00FF      *)
(*   extlet   a letter outside both ranges (U+0141, Cyrillic, ...)         *)
(*   space    white space                                                  *)
(*   hyphen, apos, digit, symbol                                           *)
(***************************************************************************)
CharClass ==
  {"ascii", "accent", "latinsym", "extlet", "space", "hyphen", "apos", "digit", "symbol"}

MaxQueryLen == 100
MinQueryLen == 2

\* Most runs an enumerated input has.
MaxRuns == 2

RunLens == {1, MaxQueryLen - 1, MaxQueryLen}

Runs == [c : CharClass, n : RunLens]

Inputs == UNION {[1..k -> Runs] : k \in 0..MaxRuns}

RECURSIVE StrLen(_)
StrLen(str) == IF str = <<>> THEN 0 ELSE Head(str).n + StrLen(Tail(str))

RECURSIVE TrimStart(_)
TrimStart(str) ==
  IF str # <<>> /\ Head(str).c = "space" THEN TrimStart(Tail(str)) ELSE str

RECURSIVE TrimEnd(_)
TrimEnd(str) ==
  IF str # <<>> /\ str[Len(str)].c = "space"
  THEN TrimEnd(SubSeq(str, 1, Len(str) - 1))
  ELSE str

\* String.prototype.trim
Trim(str) == TrimEnd(TrimStart(str))

\* the character class of the regex at script.js:149
RegexClass == {"ascii", "accent", "latinsym", "space", "hyphen", "apos"}

\* /^[...]+$/.test(str)
RegexTest(str) == str # <<>> /\ \A i \in 1..Len(str) : str[i].c \in RegexClass

\* encodeURIComponent leaves letters a-z A-Z, digits, - and ' as they are and writes
\* every other character as %XX for each byte of its UTF-8 form: one byte for white
\* space and for a symbol, two bytes for a character of U+00C0..U+07FF
EscapedRun(run) ==
  CASE run.c \in {"ascii", "digit", "hyphen", "apos"} -> run
    [] run.c \in {"space", "symbol"} -> [c |-> "escape", n |-> 3 * run.n]
    [] OTHER -> [c |-> "escape", n |-> 6 * run.n]

\* adjacent runs of escapes are one run
RECURSIVE JoinRuns(_)
JoinRuns(str) ==
  IF Len(str) < 2 THEN str
  ELSE IF str[1].c = str[2].c
       THEN JoinRuns(<<[c |-> str[1].c, n |-> str[1].n + str[2].n]>> \o SubSeq(str, 3, Len(str)))
       ELSE <<str[1]>> \o JoinRuns(Tail(str))

encodeURIComponent(str) == JoinRuns([i \in 1..Len(str) |-> EscapedRun(str[i])])

\* a bug to compare with: the format check comes before the length checks
validateSearchInputFormatFirst(value) ==
  IF value = <<>> \/ Trim(value) = <<>> THEN [valid |-> FALSE, message |-> "presence"]
  ELSE IF ~RegexTest(Trim(value)) THEN [valid |-> FALSE, message |-> "format"]
  ELSE IF StrLen(Trim(value)) < MinQueryLen THEN [valid |-> FALSE, message |-> "too-short"]
  ELSE IF StrLen(Trim(value)) > MaxQueryLen THEN [valid |-> FALSE, message |-> "too-long"]
  ELSE [valid |-> TRUE, message |-> ""]

validateSearchInput(value) ==
  IF value = <<>> \/ Trim(value) = <<>> THEN [valid |-> FALSE, message |-> "presence"]
  ELSE IF StrLen(Trim(value)) < MinQueryLen THEN [valid |-> FALSE, message |-> "too-short"]
  ELSE IF StrLen(Trim(value)) > MaxQueryLen THEN [valid |-> FALSE, message |-> "too-long"]
  ELSE IF ~RegexTest(Trim(value)) THEN [valid |-> FALSE, message |-> "format"]
  ELSE [valid |-> TRUE, message |-> ""]

(***************************************************************************)
(* Data.  A country object of the REST Countries payload, reduced to the   *)
(* fields the scripts branch on: nm is the rank of name.common under       *)
(* localeCompare, latlng says whether latlng has two entries, population   *)
(* is the population field.                                                *)
(***************************************************************************)
Japan == [nm |-> 2, latlng |-> TRUE, population |-> 3]
Malta == [nm |-> 3, latlng |-> FALSE, population |-> 1]
Chile == [nm |-> 1, latlng |-> TRUE, population |-> 0]

\* non-empty array payloads of a 2xx response
Payloads == {<<Japan>>, <<Malta>>, <<Malta, Chile>>}

\* what response.json() can settle to, for a request that was not aborted
Body(t, data) == [t |-> t, data |-> data]
Bodies ==
  {Body("syntax-error", <<>>), Body("not-array", <<>>), Body("array", <<>>)}
    \cup {Body("array", p) : p \in Payloads}

\* how fetch() can settle, for a request that was not aborted
Responses == {"ok", "404", "http-error", "network-error"}

Surfaces == {"home", "dest"}

\* the texts submitted to the two search forms
QJapan == <<[c |-> "space", n |-> 1], [c |-> "ascii", n |-> 5]>>
QShort == <<[c |-> "ascii", n |-> 1]>>
QDigits == <<[c |-> "digit", n |-> 3]>>
Queries == {QJapan, QShort, QDigits}

Regions == {"all", "Africa"}

SortCriteria == {"name-asc", "name-desc", "pop-desc", "pop-asc", "other"}

\* Most network requests the search forms and the region filter issue.
MaxReq == 2

VARIABLES
  vInput,                  \* validateSearchInput: the value it is applied to
  vResult,                 \* validateSearchInput: what it returned
  currentAbortController,  \* script.js:25, the request whose controller it holds, 0 for null
  reqs,                    \* the fetches issued by searchCountries and filterByRegion
  mainMap,                 \* script.js:21
  cards,                   \* the country cards of results-grid and dest-grid
  banner,                  \* what else dest-grid holds: the loading spinner or the error paragraph
  markers,                 \* mainMarkers and destMarkers
  viewport,                \* what each map was last fitted to
  spinner,                 \* search-spinner and dest-spinner carry the class active
  feedback,                \* search-feedback and dest-feedback
  fbTimers,                \* the auto-hide timers of showFeedback still to fire, for each element
  currentDisplayedResults, \* features.js:22
  currentDisplayContext,   \* features.js:25
  sortSelect,              \* value of the sort dropdown
  filterButtons,           \* the regions whose filter button is active with aria-pressed true
  featFate,                \* how the lookup of each featured name ends
  featI,                   \* loadFeaturedDestinations: the loop index, from 1
  featSt,                  \* loadFeaturedDestinations: the await it is suspended at
  featuredGrid,            \* the cards of featured-grid
  featReqs,                \* loadFeaturedDestinations: the lookups it has issued, in order
  cFields,                 \* contact form: the values of name, email and message
  cErrors,                 \* contact form: the fields that carry input-error and a message
  cBtn,                    \* contact form: the submit button, "idle" or "sending"
  cOutbox,                 \* contact form: the parameters of the emailjs.send in flight
  cFeedback,               \* contact form: the form-feedback element
  pInput,                  \* createCountryCard: the population field it is applied to
  pResult,                 \* createCountryCard: the population text of the card
  favStore,                \* localStorage under the key wanderlust-favourites
  favBtn,                  \* the names whose favourite button shows as favourited
  lastOp                   \* the handler step taken last and how it ended

vars ==
  <<vInput, vResult, currentAbortController, reqs, mainMap, cards, banner, markers,
    viewport, spinner, feedback, currentDisplayedResults, currentDisplayContext,
    sortSelect, featFate, featI, featSt, featuredGrid, featReqs, cFields, cErrors, cBtn, cOutbox,
    cFeedback, fbTimers, filterButtons, pInput, pResult, favStore, favBtn, lastOp>>

validateVars == <<vInput, vResult>>
displayVars == <<cards, banner, markers, viewport>>
sortVars == <<currentDisplayedResults, currentDisplayContext, sortSelect, filterButtons>>
featuredVars == <<featFate, featI, featSt, featuredGrid, featReqs>>
contactVars == <<cFields, cErrors, cBtn, cOutbox, cFeedback>>
populationVars == <<pInput, pResult>>
favouriteVars == <<favStore, favBtn>>
searchOtherVars ==
  <<currentAbortController, mainMap, cards, banner, markers, viewport, spinner,
    feedback, fbTimers, currentDisplayedResults, currentDisplayContext, sortSelect,
    filterButtons>>
searchVars ==
  <<currentAbortController, reqs, mainMap, cards, banner, markers, viewport, spinner,
    feedback, fbTimers, currentDisplayedResults, currentDisplayContext, sortSelect,
    filterButtons>>

\* script.js:582 sets destMap when the document is loaded, before any handler runs
destMap == "dest"

\* setView([20, 0], 2) of initMap, and fitBounds of a marker group
World == [fitted |-> FALSE, to |-> <<>>]
Fit(ms) == [fitted |-> TRUE, to |-> ms]

NoFeedback == [message |-> "", type |-> ""]

\* op: the step; s: its surface; r: its request; out: how it ended; data: the text
\* submitted, or the countries returned
Op(op, s, r, out, data) == [op |-> op, s |-> s, r |-> r, out |-> out, data |-> data]

\* script.js:630-637
featuredCountries == <<"Japan", "Italy", "Brazil", "Australia", "Morocco", "Iceland">>

\* how one featured lookup can end: a card, a status that is not 2xx, a rejected fetch,
\* a body that does not parse, an empty array, an element createCountryCard throws on
FeaturedFates == {"ok", "http-error", "network-error", "syntax-error", "empty", "bad-card"}

InitValidate ==
  /\ vInput = <<>>
  /\ vResult = [valid |-> FALSE, message |-> "none"]

InitSearch ==
  /\ currentAbortController = 0
  /\ reqs = <<>>
  /\ mainMap = "null"
  /\ cards = [s \in Surfaces |-> <<>>]
  /\ banner = [s \in Surfaces |-> "none"]
  /\ markers = [s \in Surfaces |-> <<>>]
  /\ viewport = [s \in Surfaces |-> World]
  /\ spinner = [s \in Surfaces |-> FALSE]
  /\ feedback = [s \in Surfaces |-> NoFeedback]
  /\ fbTimers = [s \in Surfaces |-> 0]
  /\ filterButtons = {}
  /\ currentDisplayedResults = <<>>
  /\ currentDisplayContext = [gridId |-> "dest", mapInstance |-> "null", markerArray |-> "null"]
  /\ sortSelect = "name-asc"
  /\ lastOp = Op("load", "", 0, "", <<>>)

\* the loader is started when the script is loaded and is suspended at its first fetch
InitFeatured ==
  /\ featI = 1
  /\ featSt = "fetch"
  /\ featuredGrid = <<>>
  /\ featReqs = <<[name |-> 1, st |-> "pending"]>>

\* no card built yet; no favourite stored, no favourite button drawn
InitCard ==
  /\ pInput = [present |-> FALSE, value |-> 0]
  /\ pResult = [unit |-> "none", n |-> 0]

InitFavourites ==
  /\ favStore = [kind |-> "missing", list |-> <<>>]
  /\ favBtn = {}

\* the contact form as the page shows it: empty fields, no error, nothing sent
InitContact ==
  /\ cFields = [name |-> <<>>, email |-> <<>>, message |-> <<>>]
  /\ cErrors = {}
  /\ cBtn = "idle"
  /\ cOutbox = <<>>
  /\ cFeedback = "none"

Init ==
  /\ InitValidate
  /\ InitSearch
  /\ InitFeatured
  /\ InitContact
  /\ InitCard
  /\ InitFavourites
  /\ featFate = [i \in 1..Len(featuredCountries) |-> "ok"]

\* Most auto-hide timers an element has waiting.
MaxTimers == 2

\* a bug to compare with: showFeedback starts no timer
startTimerNever(timers, elementId) == timers

\* script.js:86-89: every call of showFeedback starts a timer of 6000 ms for its element
startTimer(timers, elementId) == [timers EXCEPT ![elementId] = @ + 1]

\* showFeedback: the element's text and class
showFeedback(fb, elementId, message, type) ==
  [fb EXCEPT ![elementId] = [message |-> message, type |-> type]]

\* a bug to compare with: classList.toggle without its force argument
toggleSpinnerFlip(sp, spinnerId, show) == [sp EXCEPT ![spinnerId] = ~@]

\* toggleSpinner
toggleSpinner(sp, spinnerId, show) == [sp EXCEPT ![spinnerId] = show]

\* Number.prototype.toFixed(digits) of num / den: the integer n for which
\* n / 10^digits is nearest to the quotient, the larger n of two that are equally
\* near.  The quotient is taken exactly, as it is for every halfway case that a double
\* holds exactly (all those of the thousands are of this kind).
toFixed(num, den, digits) == (2 * num * 10^digits + den) \div (2 * den)

\* script.js:310-320: the population text of a card, as a unit and a number (tenths
\* for the unit M); a population that is undefined or 0 is falsy
formatPopulation(field) ==
  IF ~field.present \/ field.value = 0 THEN [unit |-> "N/A", n |-> 0]
  ELSE IF field.value >= 1000000
       THEN [unit |-> "M", n |-> toFixed(field.value, 1000000, 1)]
  ELSE IF field.value >= 1000
       THEN [unit |-> "K", n |-> toFixed(field.value, 1000, 0)]
  ELSE [unit |-> "", n |-> field.value]

\* the parts of a card that depend on the country: title, population and the View on
\* Map button
createCountryCard(country) ==
  [name |-> country.nm,
   population |-> formatPopulation([present |-> TRUE, value |-> country.population]),
   mapBtn |-> country.latlng]

HasLatLng(country) == country.latlng

\* L.marker(...).addTo(mapInstance).bindPopup(name ...)
Marker(country, mapInstance) == [name |-> country.nm, map |-> mapInstance]

(***************************************************************************)
(* displayResults(countries, gridId, mapInstance, markerArray)             *)
(***************************************************************************)
MarkersOf(countries, mapInstance) ==
  LET with == SelectSeq(countries, HasLatLng)
  IN  IF mapInstance = "null" THEN <<>>
      ELSE [i \in 1..Len(with) |-> Marker(with[i], mapInstance)]

CardsOf(countries) == [i \in 1..Len(countries) |-> createCountryCard(countries[i])]

\* a bug to compare with: the new cards and markers are appended to the old ones
displayResultsAppending(countries, gridId, mapInstance, markerArray) ==
  IF markerArray = "null"
  THEN /\ cards' = [cards EXCEPT ![gridId] = <<>>]
       /\ banner' = [banner EXCEPT ![gridId] = "none"]
       /\ UNCHANGED <<markers, viewport>>
  ELSE LET ms == markers[markerArray] \o MarkersOf(countries, mapInstance)
       IN  /\ cards' = [cards EXCEPT ![gridId] = @ \o CardsOf(countries)]
           /\ banner' = [banner EXCEPT ![gridId] = "none"]
           /\ markers' = [markers EXCEPT ![markerArray] = ms]
           /\ viewport' = IF Len(ms) > 0 /\ mapInstance # "null"
                          THEN [viewport EXCEPT ![mapInstance] = Fit(ms)]
                          ELSE viewport

\* a bug to compare with: the markers of the previous call are not removed
displayResultsKeepingMarkers(countries, gridId, mapInstance, markerArray) ==
  IF markerArray = "null"
  THEN /\ cards' = [cards EXCEPT ![gridId] = <<>>]
       /\ banner' = [banner EXCEPT ![gridId] = "none"]
       /\ UNCHANGED <<markers, viewport>>
  ELSE LET ms == markers[markerArray] \o MarkersOf(countries, mapInstance)
       IN  /\ cards' = [cards EXCEPT ![gridId] = CardsOf(countries)]
           /\ banner' = [banner EXCEPT ![gridId] = "none"]
           /\ markers' = [markers EXCEPT ![markerArray] = ms]
           /\ viewport' = IF Len(ms) > 0 /\ mapInstance # "null"
                          THEN [viewport EXCEPT ![mapInstance] = Fit(ms)]
                          ELSE viewport

displayResults(countries, gridId, mapInstance, markerArray) ==
  IF markerArray = "null"
  THEN \* grid.innerHTML = "" is done, then markerArray.length throws
       /\ cards' = [cards EXCEPT ![gridId] = <<>>]
       /\ banner' = [banner EXCEPT ![gridId] = "none"]
       /\ UNCHANGED <<markers, viewport>>
  ELSE LET ms == MarkersOf(countries, mapInstance)
       IN  /\ cards' = [cards EXCEPT ![gridId] = CardsOf(countries)]
           /\ banner' = [banner EXCEPT ![gridId] = "none"]
           /\ markers' = [markers EXCEPT ![markerArray] = ms]
           /\ viewport' = IF Len(ms) > 0 /\ mapInstance # "null"
                          THEN [viewport EXCEPT ![mapInstance] = Fit(ms)]
                          ELSE viewport

(***************************************************************************)
(* searchCountries and the two submit handlers                             *)
(***************************************************************************)
Request(kind, s, q) == [kind |-> kind, s |-> s, q |-> q, st |-> "fetch", aborted |-> FALSE]

\* a bug to compare with: the previous controller is not aborted
abortPreviousNot(rs, controller) == rs

\* script.js:185-187: the previous controller's signal aborts its fetch
abortPrevious(rs, controller) ==
  IF controller # 0 THEN [rs EXCEPT ![controller].aborted = TRUE] ELSE rs

\* what searchCountries returns, and the notice it shows on the way
Result(countries, fb) == [countries |-> countries, fb |-> fb]
Failed == Result(<<>>, <<"unable-to-load", "error">>)

\* a bug to compare with: the catch block does not tell AbortError apart
CancelledAsFailure == Failed

\* script.js:229-231: an AbortError returns [] and shows nothing
Cancelled == Result(<<>>, <<>>)

\* a bug to compare with: a 404 is not told apart from the other statuses
searchFetchResultNo404(aborted, resp) ==
  IF aborted THEN Cancelled ELSE Failed

\* what searchCountries returns when fetch() does not give a 2xx response
searchFetchResult(aborted, resp) ==
  IF aborted THEN Cancelled
  ELSE IF resp = "404" THEN Result(<<>>, <<"not-found", "info">>)
  ELSE Failed

\* what searchCountries returns once response.json() has settled
searchJsonResult(aborted, body) ==
  IF aborted THEN Cancelled
  ELSE IF body.t = "syntax-error" THEN Failed
  ELSE IF body.t = "not-array" \/ Len(body.data) = 0
       THEN Result(<<>>, <<"no-results", "info">>)
  ELSE Result(body.data, <<>>)

MapOf(s) == IF s = "home" THEN mainMap ELSE destMap

\* a bug to compare with: the handler renders whatever searchCountries returned
handlerCommitAlways(s, countries) == displayResults(countries, s, MapOf(s), s)

\* script.js:552-570 and 613-615: what a submit handler does with the result
handlerCommit(s, countries) ==
  IF Len(countries) > 0
  THEN displayResults(countries, s, MapOf(s), s)
  ELSE UNCHANGED displayVars

\* how the await of request r ended: "abort" when its controller was aborted, else
\* the response or the body that arrived
Via(r, event) == IF reqs[r].aborted THEN "abort" ELSE event

BodyEvent(body) ==
  IF body.t # "array" THEN body.t
  ELSE IF Len(body.data) = 0 THEN "empty-array" ELSE "array"

\* searchCountries returns res for request r, and the handler that awaited it goes on
SearchReturn(r, res, via) ==
  LET s == reqs[r].s
  IN  /\ reqs' = [reqs EXCEPT ![r].st = "done"]
      /\ res.fb # <<>> => fbTimers[s] < MaxTimers
      /\ feedback' = IF res.fb # <<>>
                     THEN showFeedback(feedback, s, res.fb[1], res.fb[2])
                     ELSE feedback
      /\ fbTimers' = IF res.fb # <<>> THEN startTimer(fbTimers, s) ELSE fbTimers
      /\ spinner' = toggleSpinner(spinner, s, FALSE)
      /\ handlerCommit(s, res.countries)
      /\ lastOp' = Op("settle", s, r, via, res.countries)
      /\ UNCHANGED <<validateVars, contactVars, populationVars, favouriteVars, featuredVars, currentAbortController, mainMap, sortVars>>

\* a bug to compare with: the query goes into the URL as it was typed
searchQueryRaw(query) == encodeURIComponent(query)

\* script.js:195-196: the name in the URL of the request
searchQuery(query) == encodeURIComponent(Trim(query))

\* searchCountries up to its first await
searchCountriesStart(s, query) ==
  /\ reqs' = Append(abortPrevious(reqs, currentAbortController),
                    Request("search", s, searchQuery(query)))
  /\ currentAbortController' = Len(reqs) + 1
  /\ spinner' = toggleSpinner(spinner, s, TRUE)

\* a bug to compare with: the handler does not return after the validation message
submitHandlerNoReturn(s, value) ==
  LET validation == validateSearchInput(value)
  IN  /\ Len(reqs) < MaxReq
      /\ feedback' = IF validation.valid THEN feedback
                     ELSE showFeedback(feedback, s, validation.message, "error")
      /\ fbTimers' = IF validation.valid THEN fbTimers ELSE startTimer(fbTimers, s)
      /\ mainMap' = IF s = "home" THEN "home" ELSE mainMap
      /\ searchCountriesStart(s, value)
      /\ lastOp' = Op("submit", s, IF validation.valid THEN Len(reqs) + 1 ELSE 0,
                      validation.message, value)
      /\ UNCHANGED <<validateVars, contactVars, populationVars, favouriteVars, featuredVars, displayVars, sortVars>>

\* the submit handlers of search-form and dest-search-form, up to the first await;
\* the home handler also creates mainMap when it is still null
submitHandler(s, value) ==
  LET validation == validateSearchInput(value)
  IN  IF ~validation.valid
      THEN /\ fbTimers[s] < MaxTimers
           /\ feedback' = showFeedback(feedback, s, validation.message, "error")
           /\ fbTimers' = startTimer(fbTimers, s)
           /\ lastOp' = Op("submit", s, 0, validation.message, value)
           /\ UNCHANGED <<validateVars, contactVars, populationVars, favouriteVars, featuredVars, currentAbortController, reqs, mainMap,
                          displayVars, spinner, sortVars>>
      ELSE /\ Len(reqs) < MaxReq
           /\ mainMap' = IF s = "home" THEN "home" ELSE mainMap
           /\ searchCountriesStart(s, value)
           /\ lastOp' = Op("submit", s, Len(reqs) + 1, "", value)
           /\ UNCHANGED <<validateVars, contactVars, populationVars, favouriteVars, featuredVars, displayVars, feedback, fbTimers, sortVars>>

Submit(s) == \E value \in Queries : submitHandler(s, value)

SubmitHome == Submit("home")
SubmitDest == Submit("dest")

\* the callback of a timer of showFeedback: the timers of an element fire in the order
\* they were started in, and each clears the element whatever it shows by then
FeedbackTimeout ==
  \E s \in Surfaces :
    /\ fbTimers[s] > 0
    /\ fbTimers' = [fbTimers EXCEPT ![s] = @ - 1]
    /\ feedback' = [feedback EXCEPT ![s] = NoFeedback]
    /\ lastOp' = Op("timeout", s, 0, "", <<>>)
    /\ UNCHANGED <<validateVars, contactVars, populationVars, favouriteVars, featuredVars,
                   currentAbortController, reqs, mainMap, displayVars, spinner, sortVars>>

InFlight(r, kind, st) ==
  /\ r \in 1..Len(reqs)
  /\ reqs[r].kind = kind
  /\ reqs[r].st = st

\* the fetch of a search settles
SearchFetchSettle ==
  \E r \in 1..Len(reqs), resp \in Responses :
    /\ InFlight(r, "search", "fetch")
    /\ IF resp = "ok" /\ ~reqs[r].aborted
       THEN /\ reqs' = [reqs EXCEPT ![r].st = "json"]
            /\ lastOp' = Op("response", reqs[r].s, r, "ok", <<>>)
            /\ UNCHANGED <<validateVars, contactVars, populationVars, favouriteVars, featuredVars, currentAbortController, mainMap, displayVars,
                           spinner, feedback, fbTimers, sortVars>>
       ELSE SearchReturn(r, searchFetchResult(reqs[r].aborted, resp), Via(r, resp))

\* response.json() of a search settles
SearchJsonSettle ==
  \E r \in 1..Len(reqs), body \in Bodies :
    /\ InFlight(r, "search", "json")
    /\ SearchReturn(r, searchJsonResult(reqs[r].aborted, body), Via(r, BodyEvent(body)))

(***************************************************************************)
(* features.js: filterByRegion and sortResults                             *)
(***************************************************************************)
\* the compare functions of features.js:77-79 and 183-203: a sorts before b
Before(sortBy, a, b) ==
  CASE sortBy = "name-asc" -> a.nm < b.nm
    [] sortBy = "name-desc" -> b.nm < a.nm
    [] sortBy = "pop-desc" -> b.population - a.population < 0
    [] sortBy = "pop-asc" -> a.population - b.population < 0

\* Array.prototype.sort is stable: x goes before the first y it must precede
RECURSIVE InsertBy(_, _, _)
InsertBy(x, sorted, sortBy) ==
  IF sorted = <<>> THEN <<x>>
  ELSE IF Before(sortBy, x, Head(sorted)) THEN <<x>> \o sorted
  ELSE <<Head(sorted)>> \o InsertBy(x, Tail(sorted), sortBy)

RECURSIVE SortBy(_, _)
SortBy(seq, sortBy) ==
  IF seq = <<>> THEN <<>>
  ELSE InsertBy(seq[Len(seq)], SortBy(SubSeq(seq, 1, Len(seq) - 1), sortBy), sortBy)

RegionAllLimit == 30

Take(seq, k) == SubSeq(seq, 1, IF Len(seq) < k THEN Len(seq) ELSE k)

\* features.js:101-106: the catch block replaces the grid's content by the error paragraph
RegionFail(r, out) ==
  /\ reqs' = [reqs EXCEPT ![r].st = "done"]
  /\ cards' = [cards EXCEPT !["dest"] = <<>>]
  /\ banner' = [banner EXCEPT !["dest"] = "error"]
  /\ lastOp' = Op("settle", "dest", r, out, <<>>)
  /\ UNCHANGED <<validateVars, contactVars, populationVars, favouriteVars, featuredVars, currentAbortController, mainMap, markers, viewport,
                 spinner, feedback, fbTimers, sortVars>>

\* a bug to compare with: the other buttons keep their active state
pressButtonKeeping(buttons, region) == buttons \cup {region}

\* features.js:148-155: every button loses active and aria-pressed, the clicked one
\* gets them
pressButton(buttons, region) == {region}

\* the click handler of a filter button, and filterByRegion up to its await of fetch
FilterByRegion ==
  \E region \in Regions :
    /\ Len(reqs) < MaxReq
    /\ cards' = [cards EXCEPT !["dest"] = <<>>]
    /\ banner' = [banner EXCEPT !["dest"] = "spinner"]
    /\ currentDisplayContext' =
         [gridId |-> "dest", mapInstance |-> destMap, markerArray |-> "dest"]
    /\ filterButtons' = pressButton(filterButtons, region)
    /\ reqs' = Append(reqs, Request("region", "dest", region))
    /\ lastOp' = Op("filter", "dest", Len(reqs) + 1, region, <<>>)
    /\ UNCHANGED <<validateVars, contactVars, populationVars, favouriteVars, featuredVars, currentAbortController, mainMap, markers, viewport,
                   spinner, feedback, fbTimers, currentDisplayedResults, sortSelect>>

\* the fetch of a region filter settles
RegionFetchSettle ==
  \E r \in 1..Len(reqs), resp \in Responses :
    /\ InFlight(r, "region", "fetch")
    /\ IF resp = "ok"
       THEN /\ reqs' = [reqs EXCEPT ![r].st = "json"]
            /\ lastOp' = Op("response", "dest", r, "ok", <<>>)
            /\ UNCHANGED <<validateVars, contactVars, populationVars, favouriteVars, featuredVars, currentAbortController, mainMap, displayVars,
                           spinner, feedback, fbTimers, sortVars>>
       ELSE RegionFail(r, "region-error")

\* response.json() of a region filter settles
RegionJsonSettle ==
  \E r \in 1..Len(reqs), body \in Bodies :
    /\ InFlight(r, "region", "json")
    /\ IF body.t # "array"
       THEN RegionFail(r, "region-error")
       ELSE LET sorted == SortBy(body.data, "name-asc")
                data == IF reqs[r].q = "all" THEN Take(sorted, RegionAllLimit) ELSE sorted
            IN  /\ reqs' = [reqs EXCEPT ![r].st = "done"]
                /\ currentDisplayedResults' = data
                /\ displayResults(data, "dest", destMap, "dest")
                /\ sortSelect' = "name-asc"
                /\ lastOp' = Op("settle", "dest", r, "region-success", data)
                /\ UNCHANGED <<validateVars, contactVars, populationVars, favouriteVars, featuredVars, currentAbortController, mainMap, spinner,
                               feedback, fbTimers, currentDisplayContext, filterButtons>>

\* a bug to compare with: the stored array itself is sorted
storedAfterSortInPlace(stored, sorted) == sorted

\* features.js:181: sortResults sorts a copy made by slice(); the stored array stays
storedAfterSort(stored, sorted) == stored

\* the change handler of sort-select
SortResults ==
  \E sortBy \in SortCriteria :
    LET rendered == Len(currentDisplayedResults) # 0 /\ sortBy # "other"
        sorted == IF rendered THEN SortBy(currentDisplayedResults, sortBy) ELSE <<>>
    IN  /\ sortSelect' = sortBy
        /\ lastOp' = Op("sort", "dest", 0, sortBy, sorted)
        /\ IF rendered
           THEN /\ displayResults(sorted,
                                  currentDisplayContext.gridId,
                                  currentDisplayContext.mapInstance,
                                  currentDisplayContext.markerArray)
                /\ currentDisplayedResults' = storedAfterSort(currentDisplayedResults, sorted)
           ELSE UNCHANGED <<displayVars, currentDisplayedResults>>
        /\ UNCHANGED <<validateVars, contactVars, populationVars, favouriteVars, featuredVars,
                       currentAbortController, reqs, mainMap, spinner, feedback, fbTimers,
                       currentDisplayContext, filterButtons>>

(***************************************************************************)
(* script.js: loadFeaturedDestinations                                     *)
(***************************************************************************)
FeaturedCountry(i) == [nm |-> i, latlng |-> TRUE, population |-> i]

\* a bug to compare with: one try block around the whole loop
featuredSkipToEnd(i) == Len(featuredCountries) + 1

\* a bug to compare with: a rejected lookup is tried again
featuredSkipRetry(i) == i

\* the catch block is inside the loop body: the loop goes on with the next name
featuredSkip(i) == i + 1

\* the lookup issued last has resolved
FeaturedResolve(fr) == [fr EXCEPT ![Len(fr)].st = "resolved"]

\* the loop's next iteration, if there is one, calls fetch for name i
featuredIssue(fr, i) ==
  IF i <= Len(featuredCountries) THEN Append(fr, [name |-> i, st |-> "pending"]) ELSE fr

\* a bug to compare with: the loader's fetch goes through the search's controller
featuredFetchAborting(rs, controller) == abortPrevious(rs, controller)

\* script.js:647-651: the loader's fetch takes no signal and leaves
\* currentAbortController alone, so it does nothing to the requests of the search
featuredFetch(rs, controller) == rs

\* a bug to compare with: the card is put in front of the others
featuredPrepend(grid, card) == <<card>> \o grid

\* featuredGrid.appendChild(card)
featuredAppend(grid, card) == Append(grid, card)

\* the loop goes on from name featI to name featI': the lookup of featI has resolved
\* and the next fetch is called
FeaturedGoOn ==
  /\ featReqs' = featuredIssue(FeaturedResolve(featReqs), featI')
  /\ reqs' = IF featI' <= Len(featuredCountries)
             THEN featuredFetch(reqs, currentAbortController)
             ELSE reqs

\* the fetch of featuredCountries[featI] settles
FeaturedFetchSettle ==
  /\ featI <= Len(featuredCountries)
  /\ featSt = "fetch"
  /\ IF featFate[featI] = "http-error"
     THEN /\ featI' = featI + 1
          /\ FeaturedGoOn
          /\ UNCHANGED featSt
     ELSE IF featFate[featI] = "network-error"
     THEN /\ featI' = featuredSkip(featI)
          /\ FeaturedGoOn
          /\ UNCHANGED featSt
     ELSE /\ featSt' = "json"
          /\ UNCHANGED <<featI, featReqs, reqs>>
  /\ lastOp' = Op("featured-response", "home", featI, featFate[featI], <<>>)
  /\ UNCHANGED <<validateVars, contactVars, populationVars, favouriteVars, searchOtherVars, featFate, featuredGrid>>

\* response.json() of featuredCountries[featI] settles
FeaturedJsonSettle ==
  /\ featI <= Len(featuredCountries)
  /\ featSt = "json"
  /\ featSt' = "fetch"
  /\ IF featFate[featI] = "ok"
     THEN /\ featuredGrid' = featuredAppend(featuredGrid, createCountryCard(FeaturedCountry(featI)))
          /\ featI' = featI + 1
     ELSE IF featFate[featI] = "empty"
     THEN /\ featI' = featI + 1
          /\ UNCHANGED featuredGrid
     ELSE /\ featI' = featuredSkip(featI)
          /\ UNCHANGED featuredGrid
  /\ FeaturedGoOn
  /\ lastOp' = Op("featured-body", "home", featI, featFate[featI], <<>>)
  /\ UNCHANGED <<validateVars, contactVars, populationVars, favouriteVars, searchOtherVars, featFate>>

NextFeatured ==
  \/ FeaturedFetchSettle
  \/ FeaturedJsonSettle

\* every way the six lookups can end
InitFates ==
  /\ InitValidate
  /\ InitSearch
  /\ InitFeatured
  /\ InitContact
  /\ InitCard
  /\ InitFavourites
  /\ featFate \in [1..Len(featuredCountries) -> FeaturedFates]

SpecFeatured == InitFates /\ [][NextFeatured]_vars

\* index.html: the search form and the featured loader.  Three ways the six lookups
\* can end: all with a card; the second rejected and the fifth with an element no
\* card can be built from; a status that is not 2xx, a body that does not parse and
\* an empty array
HomeFates ==
  {[i \in 1..Len(featuredCountries) |-> "ok"],
   [i \in 1..Len(featuredCountries) |->
      IF i = 2 THEN "network-error" ELSE IF i = 5 THEN "bad-card" ELSE "ok"],
   [i \in 1..Len(featuredCountries) |->
      IF i = 1 THEN "http-error" ELSE IF i = 3 THEN "syntax-error"
      ELSE IF i = 4 THEN "empty" ELSE "ok"]}

InitHome ==
  /\ InitValidate
  /\ InitSearch
  /\ InitFeatured
  /\ InitContact
  /\ InitCard
  /\ InitFavourites
  /\ featFate \in HomeFates


(***************************************************************************)
(* The population text of createCountryCard applied to every enumerated    *)
(* population field                                                        *)
(***************************************************************************)
\* the populations a card is built for: around 0, 1,000 and 1,000,000 and where the
\* rounding of the units changes
Populations ==
  (0..30) \cup (995..1005) \cup {1499, 1500, 1501} \cup (999495..999505)
    \cup {999999, 1000000, 1049999, 1250000, 83200000}

PopulationFields ==
  {[present |-> FALSE, value |-> 0]} \cup {[present |-> TRUE, value |-> p] : p \in Populations}

FormatPopulation ==
  /\ pResult.unit = "none"
  /\ pResult' = formatPopulation(pInput)
  /\ UNCHANGED <<pInput, validateVars, contactVars, favouriteVars, searchVars, featuredVars,
                 lastOp>>

NextPopulation == FormatPopulation

InitPopulations ==
  /\ InitValidate
  /\ InitSearch
  /\ InitFeatured
  /\ InitContact
  /\ InitFavourites
  /\ pInput \in PopulationFields
  /\ pResult = [unit |-> "none", n |-> 0]
  /\ featFate = [i \in 1..Len(featuredCountries) |-> "ok"]

SpecPopulation == InitPopulations /\ [][NextPopulation]_vars

(***************************************************************************)
(* validateSearchInput applied to every enumerated input                   *)
(***************************************************************************)
Validate ==
  /\ vResult.message = "none"
  /\ vResult' = validateSearchInput(vInput)
  /\ UNCHANGED <<vInput, searchVars, featuredVars, contactVars, populationVars, favouriteVars,
               lastOp>>

NextValidate == Validate

InitInputs ==
  /\ vInput \in Inputs
  /\ vResult = [valid |-> FALSE, message |-> "none"]
  /\ InitSearch
  /\ InitFeatured
  /\ InitContact
  /\ InitCard
  /\ InitFavourites
  /\ featFate = [i \in 1..Len(featuredCountries) |-> "ok"]

SpecValidate == InitInputs /\ [][NextValidate]_vars

\* a document that holds both search forms
NextSearch ==
  \/ SubmitHome
  \/ SubmitDest
  \/ SearchFetchSettle
  \/ SearchJsonSettle

SpecSearch == Init /\ [][NextSearch]_vars

\* destinations.html: the search form, the region filter buttons and the sort dropdown
NextDest ==
  \/ SubmitDest
  \/ SearchFetchSettle
  \/ SearchJsonSettle
  \/ FilterByRegion
  \/ RegionFetchSettle
  \/ RegionJsonSettle
  \/ SortResults

SpecDest == Init /\ [][NextDest]_vars

\* the home search form with the timers of its notices
NextNotice ==
  \/ SubmitHome
  \/ SearchFetchSettle
  \/ SearchJsonSettle
  \/ FeedbackTimeout

SpecNotice == Init /\ [][NextNotice]_vars

NextHome ==
  \/ SubmitHome
  \/ SearchFetchSettle
  \/ SearchJsonSettle
  \/ FeaturedFetchSettle
  \/ FeaturedJsonSettle

SpecHome == InitHome /\ [][NextHome]_vars

(***************************************************************************)
(* The contact form: handleFormSubmit and the callbacks of emailjs.send.   *)
(* An e-mail address is a string over the classes ascii, space, at and     *)
(* dot.  A form whose submit button is disabled is not submitted.          *)
(***************************************************************************)
ContactFields == {"name", "email", "message"}

MinNameLen == 2
MinMessageLen == 10

Run(c, n) == [c |-> c, n |-> n]

\* the characters of a string, one class each
RECURSIVE Chars(_)
Chars(str) ==
  IF str = <<>> THEN <<>>
  ELSE IF Head(str).n = 1 THEN <<Head(str).c>> \o Chars(Tail(str))
  ELSE <<Head(str).c>> \o Chars(<<Run(Head(str).c, Head(str).n - 1)>> \o Tail(str))

\* /^[^\s@]+@[^\s@]+\.[^\s@]+$/.test(email)
isValidEmail(email) ==
  LET chars == Chars(email)
  IN  \E a, d \in 1..Len(chars) :
        /\ a > 1
        /\ chars[a] = "at"
        /\ d > a + 1
        /\ d < Len(chars)
        /\ chars[d] = "dot"
        /\ \A i \in 1..Len(chars) :
             /\ chars[i] # "space"
             /\ chars[i] = "at" => i = a

\* the values typed into the three fields
ContactNames ==
  {<<>>, <<Run("ascii", 1)>>, <<Run("space", 1), Run("ascii", 1), Run("space", 1)>>,
   <<Run("ascii", 2)>>, <<Run("space", 1), Run("ascii", 2)>>}

ContactEmails ==
  {<<>>,
   <<Run("ascii", 1), Run("at", 1), Run("ascii", 1), Run("dot", 1), Run("ascii", 1)>>,
   <<Run("space", 1), Run("ascii", 1), Run("at", 1), Run("ascii", 1), Run("dot", 1),
     Run("ascii", 1), Run("space", 1)>>,
   <<Run("ascii", 1), Run("at", 1), Run("ascii", 1)>>,
   <<Run("ascii", 1), Run("space", 1), Run("ascii", 1), Run("at", 1), Run("ascii", 1),
     Run("dot", 1), Run("ascii", 1)>>,
   <<Run("ascii", 1), Run("at", 2), Run("ascii", 1), Run("dot", 1), Run("ascii", 1)>>,
   <<Run("at", 1), Run("ascii", 1), Run("dot", 1), Run("ascii", 1)>>,
   <<Run("ascii", 1), Run("at", 1), Run("dot", 1), Run("ascii", 1)>>,
   <<Run("ascii", 1), Run("at", 1), Run("ascii", 1), Run("dot", 1)>>}

ContactMessages ==
  {<<>>, <<Run("ascii", 9)>>, <<Run("ascii", 10)>>,
   <<Run("space", 5), Run("ascii", 9)>>,
   <<Run("ascii", 5), Run("space", 1), Run("ascii", 4)>>}

ContactValues(field) ==
  CASE field = "name" -> ContactNames
    [] field = "email" -> ContactEmails
    [] field = "message" -> ContactMessages

\* a bug to compare with: the lengths are those of the values as typed
invalidFieldsUntrimmed(fields) ==
  {f \in ContactFields :
     \/ f = "name" /\ StrLen(fields.name) < MinNameLen
     \/ f = "email" /\ ~isValidEmail(Trim(fields.email))
     \/ f = "message" /\ StrLen(fields.message) < MinMessageLen}

\* the fields handleFormSubmit calls showFieldError for
invalidFields(fields) ==
  {f \in ContactFields :
     \/ f = "name" /\ StrLen(Trim(fields.name)) < MinNameLen
     \/ f = "email" /\ ~isValidEmail(Trim(fields.email))
     \/ f = "message" /\ StrLen(Trim(fields.message)) < MinMessageLen}

\* the input listener of a field: the value changes and clearFieldError removes the
\* field's error
ContactInput ==
  \E f \in ContactFields : \E value \in ContactValues(f) :
    /\ cFields' = [cFields EXCEPT ![f] = value]
    /\ cErrors' = cErrors \ {f}
    /\ lastOp' = Op("contact-input", "contact", 0, f, <<>>)
    /\ UNCHANGED <<validateVars, populationVars, favouriteVars, searchVars, featuredVars, cBtn, cOutbox, cFeedback>>

\* a bug to compare with: the button is not disabled while the message is sent
submitButtonLeftEnabled == "idle"

\* part_005:73-75: the button is disabled and reads Sending...
submitButtonLoading == "sending"

\* handleFormSubmit, up to the call of emailjs.send
handleFormSubmit ==
  /\ cBtn = "idle"
  /\ cErrors' = invalidFields(cFields)
  /\ IF invalidFields(cFields) # {}
     THEN /\ lastOp' = Op("contact-submit", "contact", 0, "invalid", <<>>)
          /\ UNCHANGED <<cBtn, cOutbox>>
     ELSE /\ cBtn' = submitButtonLoading
          /\ cOutbox' = <<[from_name |-> Trim(cFields.name),
                            from_email |-> Trim(cFields.email),
                            message |-> Trim(cFields.message)]>>
          /\ lastOp' = Op("contact-submit", "contact", 0, "sending", <<>>)
  /\ UNCHANGED <<validateVars, populationVars, favouriteVars, searchVars, featuredVars, cFields, cFeedback>>

\* the promise of emailjs.send settles: then (success or error callback) and finally
ContactSendSettle ==
  \E sent \in BOOLEAN :
    /\ cOutbox # <<>>
    /\ IF sent
       THEN /\ cFeedback' = "success"
            /\ cFields' = [name |-> <<>>, email |-> <<>>, message |-> <<>>]
            /\ cErrors' = {}
       ELSE /\ cFeedback' = "error"
            /\ UNCHANGED <<cFields, cErrors>>
    /\ cBtn' = "idle"
    /\ cOutbox' = <<>>
    /\ lastOp' = Op("contact-settle", "contact", 0, IF sent THEN "sent" ELSE "failed", <<>>)
    /\ UNCHANGED <<validateVars, populationVars, favouriteVars, searchVars, featuredVars>>

\* the timer showFormFeedback starts for a success message removes the element
ContactFeedbackTimeout ==
  /\ cFeedback = "success"
  /\ cFeedback' = "none"
  /\ lastOp' = Op("contact-timeout", "contact", 0, "", <<>>)
  /\ UNCHANGED <<validateVars, populationVars, favouriteVars, searchVars, featuredVars, cFields, cErrors, cBtn, cOutbox>>

NextContact ==
  \/ ContactInput
  \/ handleFormSubmit
  \/ ContactSendSettle
  \/ ContactFeedbackTimeout

SpecContact == Init /\ [][NextContact]_vars

(***************************************************************************)
(* features.js: the favourites kept in localStorage.  The stored value is  *)
(* missing (getItem returns null), unreadable (getItem throws), unparsable *)
(* (JSON.parse throws), falsy (it parses to null, 0, false or ""), an      *)
(* object (it parses to an object, a number or true), a string (it parses  *)
(* to a string that is not empty) or a list of names.  For a string, list  *)
(* holds the names that occur in it.                                       *)
(***************************************************************************)
FavNames == {"Japan", "Malta", "Chile"}

Stored(kind, list) == [kind |-> kind, list |-> list]

NoDuplicate(list) == \A i, j \in 1..Len(list) : list[i] = list[j] => i = j

FavLists ==
  {list \in UNION {[1..k -> FavNames] : k \in 0..Cardinality(FavNames)} : NoDuplicate(list)}

FavStores ==
  {Stored(kind, <<>>) : kind \in {"missing", "unreadable", "unparsable", "falsy", "object"}}
    \cup {Stored("string", <<>>), Stored("string", <<"Japan">>)}
    \cup {Stored("list", list) : list \in FavLists}

\* getFavourites: what JSON.parse gave when it is truthy, else []
getFavourites(store) ==
  IF store.kind \in {"missing", "unreadable", "unparsable", "falsy"}
  THEN Stored("list", <<>>)
  ELSE store

\* Array.prototype.indexOf and String.prototype.indexOf, from 1; 0 for not found
IndexOf(list, name) ==
  IF \E i \in 1..Len(list) : list[i] = name
  THEN CHOOSE i \in 1..Len(list) :
         list[i] = name /\ \A j \in 1..(i - 1) : list[j] # name
  ELSE 0

\* favs.splice(index, 1)
Splice(list, index) == SubSeq(list, 1, index - 1) \o SubSeq(list, index + 1, Len(list))

\* isFavourite: "true", "false", or the TypeError of calling indexOf on a value that
\* has none
isFavourite(store, countryName) ==
  LET favs == getFavourites(store)
  IN  IF favs.kind = "object" THEN "TypeError"
      ELSE IF IndexOf(favs.list, countryName) # 0 THEN "true" ELSE "false"

\* createFavButton: the button is drawn as isFavourite says; no button when it throws
CreateFavButton ==
  \E countryName \in FavNames :
    LET is == isFavourite(favStore, countryName)
    IN  /\ favBtn' = IF is = "true" THEN favBtn \cup {countryName}
                     ELSE IF is = "false" THEN favBtn \ {countryName}
                     ELSE favBtn
        /\ lastOp' = Op("is-favourite", "", 0, is, <<countryName>>)
        /\ UNCHANGED <<validateVars, populationVars, contactVars, searchVars, featuredVars,
                       favStore>>

\* features.js:282-293: the list toggleFavourite hands to saveFavourites
toggledList(list, countryName) ==
  IF IndexOf(list, countryName) # 0
  THEN Splice(list, IndexOf(list, countryName))
  ELSE Append(list, countryName)

\* toggleFavourite, the click handler of a favourite button.  A value without
\* indexOf, splice or push throws before the button is touched; saveFavourites
\* swallows what setItem throws.
ToggleFavourite ==
  \E countryName \in FavNames, saved \in BOOLEAN :
    LET favs == getFavourites(favStore)
    IN  IF favs.kind # "list"
        THEN /\ lastOp' = Op("toggle", "", 0, "TypeError", <<countryName>>)
             /\ UNCHANGED <<validateVars, populationVars, contactVars, searchVars,
                            featuredVars, favouriteVars>>
        ELSE /\ favBtn' = IF IndexOf(favs.list, countryName) # 0
                          THEN favBtn \ {countryName}
                          ELSE favBtn \cup {countryName}
             /\ favStore' = IF saved
                            THEN Stored("list", toggledList(favs.list, countryName))
                            ELSE favStore
             /\ lastOp' = Op("toggle", IF saved THEN "saved" ELSE "not-saved", 0,
                             IF IndexOf(favs.list, countryName) # 0 THEN "removed" ELSE "added",
                             <<countryName>>)
             /\ UNCHANGED <<validateVars, populationVars, contactVars, searchVars,
                            featuredVars>>

NextFavourites ==
  \/ CreateFavButton
  \/ ToggleFavourite

\* whatever the browser holds under the key when the page is loaded
InitStores ==
  /\ InitValidate
  /\ InitSearch
  /\ InitFeatured
  /\ InitContact
  /\ InitCard
  /\ favStore \in FavStores
  /\ favBtn = {}
  /\ featFate = [i \in 1..Len(featuredCountries) |-> "ok"]

SpecFavourites == InitStores /\ [][NextFavourites]_vars

(***************************************************************************)
(* Properties                                                              *)
(***************************************************************************)
\* request r has just returned to its handler
Settles(r) ==
  /\ r \in 1..Len(reqs)
  /\ reqs[r].st # "done"
  /\ reqs'[r].st = "done"

\* a search issued after r on the surface of r
Superseded(r) ==
  \E r2 \in (r + 1)..Len(reqs) : reqs[r2].kind = "search" /\ reqs[r2].s = reqs[r].s

AllSettled == \A r \in 1..Len(reqs) : reqs[r].st = "done"

\* C1: when a search T1 returns to its handler after a later search T2 was issued on
\* the same surface, the cards and the markers of that surface stay as they are,
\* however the responses of T1 and T2 are ordered.
C1_StaleSearchLeavesDisplay ==
  [][\A r \in 1..Len(reqs) :
       (Settles(r) /\ reqs[r].kind = "search" /\ Superseded(r))
         => /\ cards'[reqs[r].s] = cards[reqs[r].s]
            /\ markers'[reqs[r].s] = markers[reqs[r].s]]_vars

\* T2 was rendered first; T1, issued before it on the same surface, returned after it
C1_Witness ==
  /\ Len(reqs) = 2
  /\ reqs[1].kind = "search" /\ reqs[2].kind = "search"
  /\ reqs[1].s = reqs[2].s
  /\ AllSettled
  /\ lastOp.op = "settle" /\ lastOp.r = 1 /\ lastOp.out = "abort"
  /\ cards[reqs[2].s] # <<>>

\* C2: on the destinations page, once every region filter and search has settled, the
\* request whose outcome was rendered last is the one issued last.
C2_LatestRequestWins ==
  (/\ AllSettled
   /\ lastOp.op = "settle"
   /\ lastOp.out \in {"array", "region-success"})
    => lastOp.r = Len(reqs)

C4_MarkersMatchCards ==
  \A s \in Surfaces :
    /\ Len(markers[s]) <= Len(cards[s])
    /\ \A i \in 1..Len(markers[s]) :
         Cardinality({j \in 1..Len(cards[s]) :
                        cards[s][j].name = markers[s][i].name /\ cards[s][j].mapBtn}) = 1

\* the step is the return of a search to its handler, its await having ended with out
SearchEnds(out) ==
  /\ lastOp'.op = "settle"
  /\ lastOp'.out = out
  /\ Settles(lastOp'.r)
  /\ reqs[lastOp'.r].kind = "search"

WithCoordinates(countries) == {i \in 1..Len(countries) : countries[i].latlng}

\* C5: a search that returns N records of which K carry coordinates leaves, on its
\* surface, exactly the cards of those N records in response order and exactly the K
\* markers of the records with coordinates; the map is fitted to them when K >= 1 and
\* keeps its view when K = 0.
C5_SuccessReplacesDisplay ==
  [][SearchEnds("array") =>
       LET s == lastOp'.s
           data == lastOp'.data
           with == SelectSeq(data, HasLatLng)
       IN  /\ Len(data) > 0
           /\ Len(cards'[s]) = Len(data)
           /\ \A i \in 1..Len(data) :
                /\ cards'[s][i].name = data[i].nm
                /\ cards'[s][i].mapBtn = data[i].latlng
           /\ Len(markers'[s]) = Cardinality(WithCoordinates(data))
           /\ \A i \in 1..Len(with) : markers'[s][i].name = with[i].nm
           /\ Len(with) >= 1 => viewport'[s] = Fit(markers'[s])
           /\ Len(with) = 0 => viewport'[s] = viewport[s]]_vars

\* a result without coordinates has replaced a result the map was fitted to
C5_Witness ==
  /\ lastOp.op = "settle" /\ lastOp.out = "array"
  /\ lastOp.r = 2
  /\ reqs[1].s = lastOp.s
  /\ Len(lastOp.data) = 1
  /\ WithCoordinates(lastOp.data) = {}
  /\ Len(cards[lastOp.s]) = 1
  /\ markers[lastOp.s] = <<>>
  /\ viewport[lastOp.s].fitted

\* C6: a search that ends in a network error (a rejected fetch, a status other than
\* 2xx and 404) changes no card and no marker, neither when it is issued nor when it
\* ends, and shows the error notice.
C6_NetworkErrorKeepsDisplay ==
  [][/\ (lastOp'.op = "submit" /\ lastOp'.r # 0) => UNCHANGED <<cards, markers>>
     /\ (SearchEnds("network-error") \/ SearchEnds("http-error"))
          => /\ UNCHANGED <<cards, markers>>
             /\ feedback'[lastOp'.s] = [message |-> "unable-to-load", type |-> "error"]]_vars

\* the search failed while an earlier result with a marker was on display
C6_Witness ==
  /\ lastOp.op = "settle" /\ lastOp.out \in {"network-error", "http-error"}
  /\ cards[lastOp.s] # <<>>
  /\ markers[lastOp.s] # <<>>
  /\ feedback[lastOp.s].type = "error"

\* C7: a search answered with status 404 shows the informational notice and adds or
\* removes no card and no marker.
C7_NotFoundKeepsDisplay ==
  [][SearchEnds("404")
       => /\ UNCHANGED <<cards, markers>>
          /\ feedback'[lastOp'.s] = [message |-> "not-found", type |-> "info"]]_vars

\* the 404 arrived while an earlier result with a marker was on display
C7_Witness ==
  /\ lastOp.op = "settle" /\ lastOp.out = "404"
  /\ cards[lastOp.s] # <<>>
  /\ markers[lastOp.s] # <<>>
  /\ feedback[lastOp.s].type = "info"

\* C8: submitting a text that validateSearchInput rejects issues no request, aborts
\* no request, leaves the spinners, the cards, the markers and the maps as they are,
\* and shows the validation message.
C8_RejectedSubmitDoesNothing ==
  [][(lastOp'.op = "submit" /\ ~validateSearchInput(lastOp'.data).valid)
       => /\ UNCHANGED <<reqs, currentAbortController, spinner, displayVars>>
          /\ feedback'[lastOp'.s] =
               [message |-> validateSearchInput(lastOp'.data).message, type |-> "error"]]_vars

\* a rejected text was submitted while a search of the same form was in flight
C8_Witness ==
  /\ lastOp.op = "submit"
  /\ ~validateSearchInput(lastOp.data).valid
  /\ \E r \in 1..Len(reqs) :
       /\ reqs[r].s = lastOp.s
       /\ reqs[r].st # "done"
       /\ ~reqs[r].aborted
  /\ spinner[lastOp.s]
  /\ feedback[lastOp.s].type = "error"

\* the characters the validation is documented to allow: letters, white space,
\* hyphens and apostrophes
DocumentedClass == {"ascii", "accent", "extlet", "space", "hyphen", "apos"}

DocumentedValid(value) ==
  /\ StrLen(Trim(value)) >= MinQueryLen
  /\ StrLen(Trim(value)) <= MaxQueryLen
  /\ \A i \in 1..Len(Trim(value)) : Trim(value)[i].c \in DocumentedClass

\* C9: validateSearchInput accepts exactly the texts whose trimmed form has 2 to 100
\* characters, all of them letters, white space, hyphens or apostrophes.
C9_ValidIffDocumented ==
  vResult.message # "none" => (vResult.valid <=> DocumentedValid(vInput))

\* the names whose lookup ends with a card
FeaturedOk == {i \in 1..Len(featuredCountries) : featFate[i] = "ok"}

RECURSIVE FeaturedCards(_)
FeaturedCards(n) ==
  IF n = 0 THEN <<>>
  ELSE IF featFate[n] = "ok"
       THEN Append(FeaturedCards(n - 1), createCountryCard(FeaturedCountry(n)))
       ELSE FeaturedCards(n - 1)

FeaturedDone == featI > Len(featuredCountries)

\* C10: whichever lookups of the featured loader fail, and however they fail, the
\* loader ends with one card for each name whose lookup succeeded, in list order, and
\* none for a failing name; with names 2 and 5 failing it ends with 4 cards.
C10_FailuresAreIndependent ==
  FeaturedDone =>
    /\ featuredGrid = FeaturedCards(Len(featuredCountries))
    /\ Len(featuredGrid) = Cardinality(FeaturedOk)
    /\ FeaturedOk = 1..Len(featuredCountries) \ {2, 5} => Len(featuredGrid) = 4

\* the loader has ended after the second lookup was rejected and the fifth returned
\* an element no card can be built from
C10_Witness ==
  /\ FeaturedDone
  /\ FeaturedOk = 1..Len(featuredCountries) \ {2, 5}
  /\ featFate[2] = "network-error"
  /\ featFate[5] = "bad-card"
  /\ Len(featuredGrid) = 4

\* a search of surface s is awaiting its fetch or its body
SearchInFlight(rs, s) ==
  \E r \in 1..Len(rs) : rs[r].kind = "search" /\ rs[r].s = s /\ rs[r].st # "done"

\* C11: searchCountries turns the spinner of its surface on in the step that issues
\* its request and off in the step it returns in, whichever way it ends (result, empty,
\* error, cancelled); whenever no search of a surface is in flight, its spinner is off.
C11_SpinnerOnThenOff ==
  [][/\ (lastOp'.op = "submit" /\ lastOp'.r # 0)
          => /\ reqs'[lastOp'.r].st = "fetch"
             /\ spinner'[lastOp'.s]
     /\ \A r \in 1..Len(reqs) :
          (Settles(r) /\ reqs[r].kind = "search") => ~spinner'[reqs[r].s]
     /\ \A s \in Surfaces : ~SearchInFlight(reqs', s) => ~spinner'[s]]_vars

\* a search ended cancelled and another ended with an error; both spinners are off
C11_Witness ==
  /\ Len(reqs) = 2
  /\ AllSettled
  /\ reqs[1].kind = "search" /\ reqs[1].aborted
  /\ lastOp.op = "settle" /\ lastOp.out = "network-error"
  /\ \A s \in Surfaces : ~spinner[s]

\* C12: a search that passes validation issues exactly one request, whose query is
\* the trimmed text (URL-escaped), not the text as typed; no step of a search issues
\* another request.
C12_OneRequestTrimmedQuery ==
  [][/\ (lastOp'.op = "submit" /\ lastOp'.r # 0)
          => /\ Len(reqs') = Len(reqs) + 1
             /\ reqs'[Len(reqs')].kind = "search"
             /\ reqs'[Len(reqs')].q = encodeURIComponent(Trim(lastOp'.data))
             /\ lastOp'.data # Trim(lastOp'.data)
                  => reqs'[Len(reqs')].q # encodeURIComponent(lastOp'.data)
     /\ lastOp'.op \in {"response", "settle"} => Len(reqs') = Len(reqs)]_vars

\* a text typed with a leading blank was submitted; its request asks for the five letters
C12_Witness ==
  /\ lastOp.op = "submit" /\ lastOp.r # 0
  /\ lastOp.data = QJapan
  /\ lastOp.data # Trim(lastOp.data)
  /\ reqs[lastOp.r].q = <<[c |-> "ascii", n |-> 5]>>

\* what the form is documented to require: a name of 2 or more characters, an address
\* in e-mail format, a message of 10 or more characters, each after trimming
InvalidAsDocumented(fields) ==
  {f \in ContactFields :
     \/ f = "name" /\ StrLen(Trim(fields.name)) < 2
     \/ f = "email" /\ ~isValidEmail(Trim(fields.email))
     \/ f = "message" /\ StrLen(Trim(fields.message)) < 10}

\* C13: submitting the contact form while a field is invalid sends nothing, leaves
\* the submit button out of its sending state, and marks every invalid field with an
\* error.
C13_InvalidContactFormNotSent ==
  [][(lastOp'.op = "contact-submit" /\ InvalidAsDocumented(cFields) # {})
       => /\ cOutbox' = <<>>
          /\ cBtn' = "idle"
          /\ lastOp'.out = "invalid"
          /\ InvalidAsDocumented(cFields) \subseteq cErrors']_vars

\* the form was submitted with a one-letter name between blanks and a nine-letter
\* message after blanks: both fields are marked, the valid address is not
C13_Witness ==
  /\ lastOp.op = "contact-submit" /\ lastOp.out = "invalid"
  /\ StrLen(cFields.name) >= 2 /\ StrLen(Trim(cFields.name)) < 2
  /\ StrLen(cFields.message) >= 10 /\ StrLen(Trim(cFields.message)) < 10
  /\ isValidEmail(Trim(cFields.email))
  /\ cErrors = {"name", "message"}
  /\ cBtn = "idle" /\ cOutbox = <<>>

\* C14: while a search that superseded an earlier search of its surface is in flight,
\* the spinner of the surface is on.
C14_SpinnerOnWhileNewerInFlight ==
  \A r \in 1..Len(reqs) :
    (/\ reqs[r].kind = "search"
     /\ reqs[r].st # "done"
     /\ \E r1 \in 1..(r - 1) :
          reqs[r1].kind = "search" /\ reqs[r1].s = reqs[r].s /\ reqs[r1].aborted)
      => spinner[reqs[r].s]

\* C15: a search that ends cancelled shows no notice and changes no card and no
\* marker.
C15_CancelledIsSilent ==
  [][SearchEnds("abort") => UNCHANGED <<cards, markers, feedback>>]_vars

\* a cancelled search has returned while the search that cancelled it is in flight:
\* no notice is shown
C15_Witness ==
  /\ lastOp.op = "settle" /\ lastOp.out = "abort"
  /\ lastOp.r = 1
  /\ Len(reqs) = 2 /\ reqs[2].st # "done"
  /\ \A s \in Surfaces : feedback[s] = NoFeedback

\* C16: a 2xx response whose body is an empty array, is not an array or does not
\* parse ends the search with the no-results notice of type info, not the error
\* notice, and changes no card and no marker.
C16_MalformedBodyIsEmpty ==
  [][(SearchEnds("empty-array") \/ SearchEnds("not-array") \/ SearchEnds("syntax-error"))
       => /\ UNCHANGED <<cards, markers>>
          /\ feedback'[lastOp'.s] = [message |-> "no-results", type |-> "info"]]_vars

\* C17: validateSearchInput reports the first rule that fails, in the order empty,
\* too short, too long, characters: a text of blanks is empty, one character that is
\* not allowed is too short, more than 100 characters with one that is not allowed
\* are too long.
C17_FirstFailingRuleWins ==
  vResult.message # "none" =>
    LET t == Trim(vInput)
        allowed == \A i \in 1..Len(t) : t[i].c \in RegexClass
    IN  /\ StrLen(t) = 0 => vResult.message = "presence"
        /\ (StrLen(t) > 0 /\ StrLen(t) < 2) => vResult.message = "too-short"
        /\ StrLen(t) > 100 => vResult.message = "too-long"
        /\ (StrLen(t) >= 2 /\ StrLen(t) <= 100 /\ ~allowed) => vResult.message = "format"
        /\ (StrLen(t) >= 2 /\ StrLen(t) <= 100 /\ allowed) => vResult.valid
        /\ vResult.valid <=> vResult.message = ""

\* 101 digits were reported as too long, not as characters that are not allowed
C17_Witness ==
  /\ vResult.message = "too-long"
  /\ StrLen(Trim(vInput)) = 101
  /\ \A i \in 1..Len(vInput) : vInput[i].c = "digit"

FeaturedPending == {k \in 1..Len(featReqs) : featReqs[k].st = "pending"}

\* C18: the featured loader has at most one lookup outstanding, issues the lookups in
\* the order of the name list, each only after the one before it has resolved, and
\* its cards are in the order of the name list.
C18_FeaturedOneAtATimeInOrder ==
  /\ Cardinality(FeaturedPending) <= 1
  /\ \A k \in 1..Len(featReqs) :
       /\ featReqs[k].name = k
       /\ k < Len(featReqs) => featReqs[k].st = "resolved"
  /\ \A a, b \in 1..Len(featuredGrid) :
       a < b => featuredGrid[a].name < featuredGrid[b].name

\* the sixth lookup is outstanding, the five before it have resolved, and the cards of
\* the first, third and fifth name are shown in that order
C18_Witness ==
  /\ Len(featReqs) = Len(featuredCountries)
  /\ FeaturedPending = {Len(featuredCountries)}
  /\ Len(featuredGrid) = 3
  /\ featuredGrid[1].name = 1 /\ featuredGrid[2].name = 3 /\ featuredGrid[3].name = 5

\* C19: the featured loader issues one lookup for each name and none twice, also
\* after a failure; it has ended exactly when every name's lookup was issued and
\* has resolved; it shows at most one card for a name.
C19_FeaturedOneLookupPerName ==
  /\ Len(featReqs) <= Len(featuredCountries)
  /\ \A j, k \in 1..Len(featReqs) : j # k => featReqs[j].name # featReqs[k].name
  /\ FeaturedDone <=>
       /\ {featReqs[k].name : k \in 1..Len(featReqs)} = 1..Len(featuredCountries)
       /\ FeaturedPending = {}
  /\ \A i \in 1..Len(featuredCountries) :
       Cardinality({k \in 1..Len(featuredGrid) : featuredGrid[k].name = i}) <= 1

\* the loader has ended after six lookups, the third of them rejected
C19_Witness ==
  /\ FeaturedDone
  /\ featFate[3] = "network-error"
  /\ FeaturedOk = 1..Len(featuredCountries) \ {3}
  /\ Len(featReqs) = Len(featuredCountries)
  /\ Len(featuredGrid) = Len(featuredCountries) - 1

\* C20: a step of the featured loader changes no card and no marker of the search
\* results, no search request and not the current controller; a step of a search
\* (issuing one, superseding one, a response, a return) changes nothing of the
\* featured loader: its lookups, its position, its cards.
C20_FeaturedAndSearchApart ==
  [][/\ lastOp'.op \in {"featured-response", "featured-body"}
          => UNCHANGED <<cards, markers, reqs, currentAbortController>>
     /\ lastOp'.op \in {"submit", "response", "settle"}
          => UNCHANGED <<featFate, featI, featSt, featuredGrid, featReqs>>]_vars

\* the loader went on to its next lookup while a search that superseded another was
\* in flight; the search is still not cancelled
C20_Witness ==
  /\ lastOp.op \in {"featured-response", "featured-body"}
  /\ Len(reqs) = 2
  /\ reqs[1].aborted
  /\ reqs[2].st # "done" /\ ~reqs[2].aborted
  /\ currentAbortController = 2
  /\ FeaturedPending # {}

\* the step calls displayResults
Renders ==
  \/ lastOp'.op = "settle" /\ lastOp'.out \in {"array", "region-success"}
        /\ Settles(lastOp'.r)
  \/ lastOp'.op = "sort" /\ lastOp'.data # <<>>

\* C21: when displayResults is called with the records a surface already shows (its
\* cards and markers are those of a first call with the same records), the cards and
\* the markers after the call are the same: no marker twice, none left over.
C21_DisplayResultsIdempotent ==
  [][LET s == lastOp'.s
         data == lastOp'.data
     IN  (/\ Renders
          /\ cards[s] = CardsOf(data)
          /\ markers[s] = MarkersOf(data, MapOf(s)))
           => /\ cards'[s] = cards[s]
              /\ markers'[s] = markers[s]
              /\ Len(markers'[s]) = Cardinality(WithCoordinates(data))]_vars

\* the two records a region filter rendered were rendered again by a sort in the same
\* order: two cards and the one marker
C21_Witness ==
  /\ lastOp.op = "sort" /\ lastOp.out = "name-asc"
  /\ Len(lastOp.data) = 2
  /\ lastOp.data = currentDisplayedResults
  /\ Len(reqs) = 1 /\ reqs[1].kind = "region" /\ AllSettled
  /\ cards["dest"] = CardsOf(lastOp.data)
  /\ Len(markers["dest"]) = 1

\* C26: on the destinations page, when no request is in flight, currentDisplayedResults
\* holds the records of the cards in the grid.
C26_StoredResultsAreDisplayed ==
  AllSettled =>
    {cards["dest"][i].name : i \in 1..Len(cards["dest"])}
      = {currentDisplayedResults[i].nm : i \in 1..Len(currentDisplayedResults)}

\* how often the record named nm is in a list of records
CountOf(nm, countries) == Cardinality({i \in 1..Len(countries) : countries[i].nm = nm})

\* C27: sortResults leaves currentDisplayedResults as it is, in content and order;
\* when it renders, the cards are a permutation of the stored records and the marker
\* array it passes on is not null; with a criterion it does not know or with nothing
\* stored it leaves the grid, the markers and the map as they are.
C27_SortKeepsStoredResults ==
  [][lastOp'.op = "sort" =>
       LET stored == currentDisplayedResults
           known == lastOp'.out \in {"name-asc", "name-desc", "pop-desc", "pop-asc"}
       IN  /\ currentDisplayedResults' = stored
           /\ (known /\ stored # <<>>)
                => /\ currentDisplayContext.markerArray # "null"
                   /\ Len(cards'["dest"]) = Len(stored)
                   /\ \A i \in 1..Len(stored) :
                        Cardinality({j \in 1..Len(stored) :
                                       cards'["dest"][j].name = stored[i].nm})
                          = CountOf(stored[i].nm, stored)
           /\ (~known \/ stored = <<>>) => UNCHANGED displayVars]_vars

\* the records stored in name order are shown by population, largest first
C27_Witness ==
  /\ lastOp.op = "sort" /\ lastOp.out = "pop-desc"
  /\ currentDisplayedResults = <<Chile, Malta>>
  /\ cards["dest"] = CardsOf(<<Malta, Chile>>)

\* C30: once a region filter button was clicked, exactly one button is active with
\* aria-pressed true, the one clicked last, and a request for its region was issued.
C30_OneActiveFilterButton ==
  LET clicks == {r \in 1..Len(reqs) : reqs[r].kind = "region"}
  IN  clicks # {} =>
        \E r \in clicks :
          /\ \A r2 \in clicks : r2 <= r
          /\ filterButtons = {reqs[r].q}
          /\ Cardinality(filterButtons) = 1

\* Africa was clicked, then all: only the button of all is active
C30_Witness ==
  /\ Len(reqs) = 2
  /\ reqs[1].kind = "region" /\ reqs[1].q = "Africa"
  /\ reqs[2].kind = "region" /\ reqs[2].q = "all"
  /\ filterButtons = {"all"}

\* C22: once the timer of the notice shown last on an element has fired, and so no
\* timer of the element is waiting, the element holds no message.
C22_NoticeDismissed ==
  \A s \in Surfaces : fbTimers[s] = 0 => feedback[s] = NoFeedback

\* two notices were shown on the home element and both timers have fired
C22_Witness ==
  /\ lastOp.op = "timeout" /\ lastOp.s = "home"
  /\ fbTimers["home"] = 0
  /\ feedback["home"] = NoFeedback
  /\ Len(reqs) = 2 /\ AllSettled

\* C28: a timer that fires while the timer of a later notice on its element is still
\* waiting leaves the element as it is.
C28_EarlierTimerSparesLaterNotice ==
  [][(lastOp'.op = "timeout" /\ fbTimers[lastOp'.s] > 1)
       => feedback'[lastOp'.s] = feedback[lastOp'.s]]_vars

\* C23: the population text is N/A only for an absent population; a present
\* population below 1,000 is shown as it is, one from 1,000 to 999,999 as a whole
\* number of thousands with K that stays below 1000, one from 1,000,000 as millions
\* with one decimal and M.
C23_PopulationText ==
  pResult.unit # "none" =>
    /\ pResult.unit = "N/A" <=> ~pInput.present
    /\ (pInput.present /\ pInput.value < 1000)
         => pResult = [unit |-> "", n |-> pInput.value]
    /\ (pInput.present /\ pInput.value >= 1000 /\ pInput.value < 1000000)
         => pResult.unit = "K" /\ pResult.n < 1000
    /\ (pInput.present /\ pInput.value >= 1000000)
         => pResult.unit = "M" /\ pResult.n >= 10

\* C25: a contact form that passes validation is sent with the submit button
\* disabled; the button stays disabled while the message is being sent, is enabled
\* again when sending ends, whether it succeeded or failed, and no send starts while
\* another is in progress.
C25_ButtonDisabledWhileSending ==
  [][/\ (lastOp'.op = "contact-submit" /\ lastOp'.out = "sending")
          => /\ cOutbox = <<>>
             /\ cBtn' = "sending"
     /\ lastOp'.op = "contact-settle"
          => /\ cBtn = "sending"
             /\ cBtn' = "idle"
             /\ cOutbox' = <<>>
     /\ cOutbox' # <<>> => cBtn' = "sending"]_vars

\* sending has failed: the error is shown and the button is enabled again
C25_Witness ==
  /\ lastOp.op = "contact-settle" /\ lastOp.out = "failed"
  /\ cFeedback = "error"
  /\ cBtn = "idle"
  /\ cOutbox = <<>>
  /\ invalidFields(cFields) = {}

\* the names a stored value lists
Members(store) ==
  IF store.kind = "list" THEN {store.list[i] : i \in 1..Len(store.list)} ELSE {}

\* C24: when the stored value is missing, unreadable, unparsable or parses to
\* something that is not a list, isFavourite and toggleFavourite do not fail and do
\* what they do on an empty list: isFavourite says no, toggleFavourite adds the name.
C24_UnusableStoreIsEmpty ==
  [][(lastOp'.op \in {"is-favourite", "toggle"} /\ favStore.kind # "list")
       => /\ lastOp'.out # "TypeError"
          /\ lastOp'.op = "is-favourite" => lastOp'.out = "false"
          /\ lastOp'.op = "toggle" => lastOp'.out = "added"]_vars

\* C29: a toggle on a stored list without duplicates leaves a stored list without
\* duplicates in which exactly the toggled name has changed its membership.
C29_ToggleFlipsOneName ==
  [][(lastOp'.op = "toggle" /\ favStore.kind = "list" /\ NoDuplicate(favStore.list))
       => /\ favStore'.kind = "list"
          /\ NoDuplicate(favStore'.list)
          /\ \A name \in FavNames :
               (name \in Members(favStore')) <=>
                 IF name = lastOp'.data[1]
                 THEN name \notin Members(favStore)
                 ELSE name \in Members(favStore)]_vars

====
